---- MODULE Spec2Model ----
(***************************************************************************)
(* The lexical scanner of CookieLang (parser-rust/src/lib.rs) and its      *)
(* driver (parser-rust/src/main.rs) as a state machine.                    *)
(*                                                                         *)
(* A character is a one-character string; the source text is a sequence    *)
(* of characters.  Positions are 0-based as in the code: the character at  *)
(* position n is source[n + 1].  A panic of the Rust program is the        *)
(* control state "panic", which no action leaves.                          *)
(***************************************************************************)
EXTENDS Integers, Sequences, FiniteSets

VARIABLES source, tokens, start, current, line, pc, panic, printed, steps

vars == <<source, tokens, start, current, line, pc, panic, printed, steps>>

(***************************************************************************)
(* Bounds of the model: every text of at most MaxShort characters over the *)
(* full alphabet, and every text of at most MaxLen characters over the     *)
(* core alphabet.                                                          *)
(***************************************************************************)
MaxShort == 2

MaxLen == 4

NonAscii == "é"

FullAlphabet ==
    { "(", ")", "{", "}", ",", ".", "+", "-", "*", "/", ";",
      "!", "=", ">", "<", " ", "\r", "\t", "\n", "\"",
      "1", "2", "o", "r", "f", "O", "_", "#", NonAscii }

CoreAlphabet == { "\"", NonAscii, "\n", "!", "=", "1", ".", "o", "r" }

Texts(alphabet, n) == UNION { [1..k -> alphabet] : k \in 0..n }

Sources == Texts(FullAlphabet, MaxShort) \cup Texts(CoreAlphabet, MaxLen)

(***************************************************************************)
(* Characters.  Nul is the '\0' that peek and peek_next return at the end  *)
(* of the text; None is the result of chars().nth(n) past the last         *)
(* character, on which unwrap() panics.                                    *)
(***************************************************************************)
Nul == "NUL"

None == "None"

\* The Unicode scalar value of a character (char comparison in Rust).
CodePoint(c) ==
    CASE c = Nul  -> 0
      [] c = "\t" -> 9
      [] c = "\n" -> 10
      [] c = "\r" -> 13
      [] c = " "  -> 32
      [] c = "!"  -> 33
      [] c = "\"" -> 34
      [] c = "#"  -> 35
      [] c = "("  -> 40
      [] c = ")"  -> 41
      [] c = "*"  -> 42
      [] c = "+"  -> 43
      [] c = ","  -> 44
      [] c = "-"  -> 45
      [] c = "."  -> 46
      [] c = "/"  -> 47
      [] c = "0"  -> 48
      [] c = "1"  -> 49
      [] c = "2"  -> 50
      [] c = "9"  -> 57
      [] c = ";"  -> 59
      [] c = "<"  -> 60
      [] c = "="  -> 61
      [] c = ">"  -> 62
      [] c = "A"  -> 65
      [] c = "O"  -> 79
      [] c = "Z"  -> 90
      [] c = "_"  -> 95
      [] c = "a"  -> 97
      [] c = "f"  -> 102
      [] c = "o"  -> 111
      [] c = "r"  -> 114
      [] c = "z"  -> 122
      [] c = "{"  -> 123
      [] c = "}"  -> 125
      [] c = NonAscii -> 233

\* The number of bytes of a character in UTF-8.
Utf8Len(c) ==
    IF CodePoint(c) < 128 THEN 1
    ELSE IF CodePoint(c) < 2048 THEN 2
    ELSE IF CodePoint(c) < 65536 THEN 3 ELSE 4

RECURSIVE ByteLen(_)
\* String::len(): the length of the text in bytes.
ByteLen(s) == IF s = <<>> THEN 0 ELSE Utf8Len(Head(s)) + ByteLen(Tail(s))

\* source.chars().nth(n)
NthChar(n) == IF n < Len(source) THEN source[n + 1] ELSE None

\* Substr with take(end) for take(end - start).
Substr_TakeEnd(s, from, to) ==
    [i \in 1..(IF Len(s) - from < to THEN Len(s) - from ELSE to) |-> s[from + i]]

\* impl Substr for String: chars().skip(start).take(end - start)
Substr(s, from, to) ==
    [i \in 1..(IF Len(s) - from < to - from THEN Len(s) - from ELSE to - from)
        |-> s[from + i]]

(***************************************************************************)
(* The helper methods of Scanner.  The cursor is a parameter wherever a    *)
(* method is called after the action has moved it.                         *)
(***************************************************************************)
\* Scanner::is_end: current against the length in BYTES.
is_end(cur) == cur >= ByteLen(source)

\* Scanner::peek: Nul at the end, None where unwrap() panics.
peek(cur) == IF cur >= ByteLen(source) THEN Nul ELSE NthChar(cur)

\* Scanner::peek_next
peek_next(cur) == IF cur + 1 >= ByteLen(source) THEN Nul ELSE NthChar(cur + 1)

\* Scanner::is_digit
is_digit(c) == CodePoint(c) >= CodePoint("0") /\ CodePoint(c) <= CodePoint("9")

\* Scanner::is_alpha
is_alpha(c) ==
    \/ CodePoint(c) >= CodePoint("a") /\ CodePoint(c) <= CodePoint("z")
    \/ CodePoint(c) >= CodePoint("A") /\ CodePoint(c) <= CodePoint("Z")
    \/ c = "_"

\* Scanner::is_alphanumeric
is_alphanumeric(c) == is_digit(c) \/ is_alpha(c)

\* Scanner::substr: the text between start and current.
substr(st, cur) == Substr(source, st, cur)

(***************************************************************************)
(* Literals: the Box<dyn Any> of a token holds TokenType::NIL (no          *)
(* literal), a String, or the Result<usize, ParseIntError> of parse().     *)
(***************************************************************************)
NilLiteral == [tag |-> "Nil", str |-> <<>>, num |-> 0]

StringLiteral(s) == [tag |-> "String", str |-> s, num |-> 0]

OkLiteral(n) == [tag |-> "Ok", str |-> <<>>, num |-> n]

ErrLiteral == [tag |-> "Err", str |-> <<>>, num |-> 0]

\* The number of decimal digits of usize::MAX = 18446744073709551615.
UsizeDigits == 20

DigitValue(c) == CodePoint(c) - CodePoint("0")

RECURSIVE DecimalValue(_, _)
\* The value of a digit sequence, accumulated left to right.
DecimalValue(s, acc) ==
    IF s = <<>> THEN acc ELSE DecimalValue(Tail(s), 10 * acc + DigitValue(Head(s)))

\* str::parse::<usize>(): Err on an empty text, on any character that is not
\* a digit (a sign can not occur: the lexeme starts with a digit) and on
\* overflow.  No text of fewer than UsizeDigits digits overflows, and the
\* texts of this model are far shorter.
ParseUsize(s) ==
    IF s = <<>> \/ (\E i \in 1..Len(s) : ~is_digit(s[i])) \/ Len(s) >= UsizeDigits
    THEN ErrLiteral
    ELSE OkLiteral(DecimalValue(s, 0))

\* Scanner::add_token_verbose: the token pushed for the cursor (st, cur, ln).
Token(token_type, literal, st, cur, ln) ==
    [token_type |-> token_type, lexeme |-> substr(st, cur),
     literal |-> literal, line |-> ln]

\* Scanner::add_token: a token without a literal.
PlainToken(token_type, st, cur, ln) == Token(token_type, NilLiteral, st, cur, ln)

\* Scanner::init_keywords
Keywords ==
    { <<<<"a", "n", "d">>, "AND">>,
      <<<<"c", "l", "a", "s", "s">>, "CLASS">>,
      <<<<"e", "l", "s", "e">>, "ELSE">>,
      <<<<"f", "a", "l", "s", "e">>, "FALSE">>,
      <<<<"f", "o", "r">>, "FOR">>,
      <<<<"f", "u", "n">>, "FUN">>,
      <<<<"i", "f">>, "IF">>,
      <<<<"n", "i", "l">>, "NIL">>,
      <<<<"o", "r">>, "OR">>,
      <<<<"p", "r", "i", "n", "t">>, "PRINT">>,
      <<<<"r", "e", "t", "u", "r", "n">>, "RETURN">>,
      <<<<"s", "u", "p", "e", "r">>, "SUPER">>,
      <<<<"t", "h", "i", "s">>, "THIS">>,
      <<<<"t", "r", "u", "e">>, "TRUE">>,
      <<<<"v", "a", "r">>, "VAR">>,
      <<<<"w", "h", "i", "l", "e">>, "WHILE">> }

\* The lookup of Scanner::identifier: keywords.get(&text), else IDENTIFIER.
IdentifierType(text) ==
    IF \E kw \in Keywords : kw[1] = text
    THEN (CHOOSE kw \in Keywords : kw[1] = text)[2]
    ELSE "IDENTIFIER"

\* The single-character arms of the match in Scanner::scan_token.
SingleCharType(c) ==
    CASE c = "(" -> "LEFTPAREN"
      [] c = ")" -> "RIGHTPAREN"
      [] c = "{" -> "LEFTBRACE"
      [] c = "}" -> "LEFTBRACE"
      [] c = "," -> "COMMA"
      [] c = "." -> "DOT"
      [] c = "+" -> "PLUS"
      [] c = "-" -> "MINUS"
      [] c = "*" -> "STAR"
      [] c = "/" -> "SLASH"
      [] c = ";" -> "SEMICOLON"

SingleChars == { "(", ")", "{", "}", ",", ".", "+", "-", "*", "/", ";" }

\* The arms of '!', '=', '>' and '<': the kind by whether '=' followed.
OperatorType(c, matched) ==
    CASE c = "!" -> IF matched THEN "BANGEQUAL" ELSE "EQUAL"
      [] c = "=" -> IF matched THEN "EQUALEQUAL" ELSE "EQUAL"
      [] c = ">" -> IF matched THEN "GREATEREQUAL" ELSE "GREATER"
      [] c = "<" -> IF matched THEN "LESSEQUAL" ELSE "LESS"

OperatorChars == { "!", "=", ">", "<" }

Whitespace == { " ", "\r", "\t" }

\* Scanner::match_token at cursor cur: "panic" where peek() unwraps None,
\* else whether the expected character was consumed.
match_token(expected, cur) ==
    IF is_end(cur) THEN "false"
    ELSE IF peek(cur) = None THEN "panic"
    ELSE IF peek(cur) # expected THEN "false"
    ELSE "true"

(***************************************************************************)
(* Scanner::new, then main calls scan_tokens.                              *)
(***************************************************************************)
Init ==
    /\ source \in Sources
    /\ tokens = <<>>
    /\ start = 0
    /\ current = 0
    /\ line = 0
    /\ pc = "scan"
    /\ panic = ""
    /\ printed = <<>>
    /\ steps = 0

\* A panic: the process ends, whatever was scanned is lost.
Abort(message) ==
    /\ pc' = "panic"
    /\ panic' = message

\* The guard of one pass of the loop of scan_tokens, which sets start;
\* steps counts the passes begun.
LoopBody ==
    /\ pc = "scan"
    /\ ~is_end(current)
    /\ start' = current
    /\ steps' = steps + 1

\* The character advance() returns at the head of scan_token.
Lead == NthChar(current)

\* advance() in scan_token where no character is left: unwrap() of None.
AdvancePastEnd ==
    /\ LoopBody
    /\ Lead = None
    /\ Abort("unwrap on None")
    /\ UNCHANGED <<source, tokens, current, line, printed>>

\* '(' ')' '{' '}' ',' '.' '+' '-' '*' '/' ';'
ScanSingleChar ==
    /\ LoopBody
    /\ Lead \in SingleChars
    /\ current' = current + 1
    /\ tokens' = Append(tokens,
                    PlainToken(SingleCharType(Lead), current, current + 1, line))
    /\ UNCHANGED <<source, line, pc, panic, printed>>

\* '!' '=' '>' '<': match_token('=') decides between two kinds.
ScanOperator ==
    /\ LoopBody
    /\ Lead \in OperatorChars
    /\ LET m == match_token("=", current + 1)
           cur == IF m = "true" THEN current + 2 ELSE current + 1
       IN  IF m = "panic"
           THEN /\ Abort("unwrap on None")
                /\ current' = current + 1
                /\ UNCHANGED tokens
           ELSE /\ current' = cur
                /\ tokens' = Append(tokens,
                      PlainToken(OperatorType(Lead, m = "true"), current, cur, line))
                /\ UNCHANGED <<pc, panic>>
    /\ UNCHANGED <<source, line, printed>>

\* ScanWhitespace that counts a carriage return as a line.
ScanWhitespace_CountsLine ==
    /\ LoopBody
    /\ Lead \in Whitespace
    /\ current' = current + 1
    /\ line' = IF Lead = "\r" THEN line + 1 ELSE line
    /\ UNCHANGED <<source, tokens, pc, panic, printed>>

\* ScanWhitespace that looks at the blank without consuming it.
ScanWhitespace_NoAdvance ==
    /\ LoopBody
    /\ Lead \in Whitespace
    /\ UNCHANGED <<source, tokens, current, line, pc, panic, printed>>

\* ' ' '\r' '\t'
ScanWhitespace ==
    /\ LoopBody
    /\ Lead \in Whitespace
    /\ current' = current + 1
    /\ UNCHANGED <<source, tokens, line, pc, panic, printed>>

\* '\n'
ScanNewline ==
    /\ LoopBody
    /\ Lead = "\n"
    /\ current' = current + 1
    /\ line' = line + 1
    /\ UNCHANGED <<source, tokens, pc, panic, printed>>

\* '"': enter string().
ScanQuote ==
    /\ LoopBody
    /\ Lead = "\""
    /\ current' = current + 1
    /\ pc' = "string"
    /\ UNCHANGED <<source, tokens, line, panic, printed>>

\* The arms of the default case of the match.
Handled == SingleChars \cup OperatorChars \cup Whitespace \cup {"\n", "\"", None}

\* A digit: enter number().
ScanDigit ==
    /\ LoopBody
    /\ Lead \notin Handled
    /\ is_digit(Lead)
    /\ current' = current + 1
    /\ pc' = "number"
    /\ UNCHANGED <<source, tokens, line, panic, printed>>

\* A letter or '_': enter identifier().
ScanAlpha ==
    /\ LoopBody
    /\ Lead \notin Handled
    /\ ~is_digit(Lead)
    /\ is_alpha(Lead)
    /\ current' = current + 1
    /\ pc' = "identifier"
    /\ UNCHANGED <<source, tokens, line, panic, printed>>

\* ScanInvalid that skips the character instead of panicking.
ScanInvalid_Skip ==
    /\ LoopBody
    /\ Lead \notin Handled
    /\ ~is_digit(Lead)
    /\ ~is_alpha(Lead)
    /\ current' = current + 1
    /\ UNCHANGED <<source, tokens, line, pc, panic, printed>>

\* Anything else: panic!("Invalid token").
ScanInvalid ==
    /\ LoopBody
    /\ Lead \notin Handled
    /\ ~is_digit(Lead)
    /\ ~is_alpha(Lead)
    /\ current' = current + 1
    /\ Abort("Invalid token")
    /\ UNCHANGED <<source, tokens, line, printed>>

(***************************************************************************)
(* Scanner::string, one action per pass of its loop.                       *)
(***************************************************************************)
\* StringChar without the count of newlines.
StringChar_NoLineCount ==
    /\ pc = "string"
    /\ peek(current) \notin {"\"", None}
    /\ ~is_end(current)
    /\ current' = current + 1
    /\ UNCHANGED <<source, tokens, start, line, pc, panic, printed, steps>>

\* The loop body: a character that is not the closing quote is consumed, a
\* newline counted.
StringChar ==
    /\ pc = "string"
    /\ peek(current) \notin {"\"", None}
    /\ ~is_end(current)
    /\ line' = IF peek(current) = "\n" THEN line + 1 ELSE line
    /\ current' = current + 1
    /\ UNCHANGED <<source, tokens, start, pc, panic, printed, steps>>

\* After the loop with no character left: panic!("Undetermined string").
StringUnterminated ==
    /\ pc = "string"
    /\ peek(current) # None
    /\ ~(peek(current) # "\"" /\ ~is_end(current))
    /\ is_end(current)
    /\ Abort("Undetermined string")
    /\ UNCHANGED <<source, tokens, start, current, line, printed, steps>>

\* The literal value that string() boxes: the text of substr().
StringValue(st, cur) == substr(st, cur)

\* StringClose with the end test made after the closing quote is consumed.
StringClose_EndTestLate ==
    /\ pc = "string"
    /\ peek(current) # None
    /\ ~(peek(current) # "\"" /\ ~is_end(current))
    /\ ~is_end(current)
    /\ current' = current + 1
    /\ IF is_end(current + 1)
       THEN /\ Abort("Undetermined string")
            /\ UNCHANGED tokens
       ELSE /\ tokens' = Append(tokens,
                  Token("STRING", StringLiteral(StringValue(start, current + 1)),
                        start, current + 1, line))
            /\ pc' = "scan"
            /\ UNCHANGED panic
    /\ UNCHANGED <<source, start, line, printed, steps>>

\* StringClose that winds line back to the line the literal began on.
StringClose_RestoreLine ==
    /\ pc = "string"
    /\ peek(current) # None
    /\ ~(peek(current) # "\"" /\ ~is_end(current))
    /\ ~is_end(current)
    /\ current' = current + 1
    /\ line' = line - Cardinality({ i \in (start + 1)..current : source[i] = "\n" })
    /\ tokens' = Append(tokens,
          Token("STRING", StringLiteral(StringValue(start, current + 1)),
                start, current + 1, line'))
    /\ pc' = "scan"
    /\ UNCHANGED <<source, start, panic, printed, steps>>

\* After the loop at the closing quote: consume it and push STRING.
StringClose ==
    /\ pc = "string"
    /\ peek(current) # None
    /\ ~(peek(current) # "\"" /\ ~is_end(current))
    /\ ~is_end(current)
    /\ current' = current + 1
    /\ tokens' = Append(tokens,
          Token("STRING", StringLiteral(StringValue(start, current + 1)),
                start, current + 1, line))
    /\ pc' = "scan"
    /\ UNCHANGED <<source, start, line, panic, printed, steps>>

(***************************************************************************)
(* Scanner::number                                                         *)
(***************************************************************************)
\* The first loop: a digit of the integer part.
NumberDigit ==
    /\ pc = "number"
    /\ peek(current) # None
    /\ is_digit(peek(current))
    /\ current' = current + 1
    /\ UNCHANGED <<source, tokens, start, line, pc, panic, printed, steps>>

\* Whether number() takes the '.' at the cursor: a digit follows it.
TakesDot(cur) == peek(cur) = "." /\ is_digit(peek_next(cur))

\* A '.' followed by a digit: consume the '.' and scan the fraction.
NumberDot ==
    /\ pc = "number"
    /\ peek(current) # None
    /\ ~is_digit(peek(current))
    /\ peek(current) = "." => peek_next(current) # None
    /\ TakesDot(current)
    /\ current' = current + 1
    /\ pc' = "fraction"
    /\ UNCHANGED <<source, tokens, start, line, panic, printed, steps>>

\* The second loop: a digit of the fraction.
FractionDigit ==
    /\ pc = "fraction"
    /\ peek(current) # None
    /\ is_digit(peek(current))
    /\ current' = current + 1
    /\ UNCHANGED <<source, tokens, start, line, pc, panic, printed, steps>>

\* The literal that number() boxes: the Result of parse::<usize>().
NumberValue(st, cur) == ParseUsize(substr(st, cur))

\* NumberEnd with unwrap() on the parse result: an Err aborts.
NumberEnd_Unwrap ==
    /\ peek(current) # None
    /\ ~is_digit(peek(current))
    /\ \/ pc = "fraction"
       \/ /\ pc = "number"
          /\ peek(current) = "." => peek_next(current) # None
          /\ ~TakesDot(current)
    /\ IF NumberValue(start, current) = ErrLiteral
       THEN /\ Abort("unwrap on Err")
            /\ UNCHANGED tokens
       ELSE /\ tokens' = Append(tokens,
                  Token("NUMBER", NumberValue(start, current), start, current, line))
            /\ pc' = "scan"
            /\ UNCHANGED panic
    /\ UNCHANGED <<source, start, current, line, printed, steps>>

\* The end of number(): push NUMBER with the parse result, Ok or Err.
NumberEnd ==
    /\ peek(current) # None
    /\ ~is_digit(peek(current))
    /\ \/ pc = "fraction"
       \/ /\ pc = "number"
          /\ peek(current) = "." => peek_next(current) # None
          /\ ~TakesDot(current)
    /\ tokens' = Append(tokens,
          Token("NUMBER", NumberValue(start, current), start, current, line))
    /\ pc' = "scan"
    /\ UNCHANGED <<source, start, current, line, panic, printed, steps>>

(***************************************************************************)
(* Scanner::identifier                                                     *)
(***************************************************************************)
IdentifierChar ==
    /\ pc = "identifier"
    /\ peek(current) # None
    /\ is_alphanumeric(peek(current))
    /\ current' = current + 1
    /\ UNCHANGED <<source, tokens, start, line, pc, panic, printed, steps>>

IdentifierEnd ==
    /\ pc = "identifier"
    /\ peek(current) # None
    /\ ~is_alphanumeric(peek(current))
    /\ tokens' = Append(tokens,
          PlainToken(IdentifierType(substr(start, current)), start, current, line))
    /\ pc' = "scan"
    /\ UNCHANGED <<source, start, current, line, panic, printed, steps>>

\* peek() or peek_next() inside string(), number() or identifier() at a
\* position below the byte length that holds no character: unwrap() of None.
LookaheadPastEnd ==
    /\ pc \in {"string", "number", "fraction", "identifier"}
    /\ \/ peek(current) = None
       \/ pc = "number" /\ peek(current) = "." /\ peek_next(current) = None
    /\ Abort("unwrap on None")
    /\ UNCHANGED <<source, tokens, start, current, line, printed, steps>>

(***************************************************************************)
(* The end of scan_tokens, and main.                                       *)
(***************************************************************************)
\* The token that scan_tokens pushes after its loop.
EofToken == PlainToken("EOF", start, current, line)

\* ScanEnd without the push of EOF.
ScanEnd_NoEof ==
    /\ pc = "scan"
    /\ is_end(current)
    /\ pc' = "returned"
    /\ UNCHANGED <<source, tokens, start, current, line, panic, printed, steps>>

\* The loop ends: push EOF and return the tokens.
ScanEnd ==
    /\ pc = "scan"
    /\ is_end(current)
    /\ tokens' = Append(tokens, EofToken)
    /\ pc' = "returned"
    /\ UNCHANGED <<source, start, current, line, panic, printed, steps>>

\* main prints every token of the returned vector.
Main ==
    /\ pc = "returned"
    /\ printed' = tokens
    /\ pc' = "done"
    /\ UNCHANGED <<source, tokens, start, current, line, panic, steps>>

Next ==
    \/ AdvancePastEnd
    \/ ScanSingleChar
    \/ ScanOperator
    \/ ScanWhitespace
    \/ ScanNewline
    \/ ScanQuote
    \/ ScanDigit
    \/ ScanAlpha
    \/ ScanInvalid
    \/ StringChar
    \/ StringUnterminated
    \/ StringClose
    \/ NumberDigit
    \/ NumberDot
    \/ FractionDigit
    \/ NumberEnd
    \/ IdentifierChar
    \/ IdentifierEnd
    \/ LookaheadPastEnd
    \/ ScanEnd
    \/ Main

Spec == Init /\ [][Next]_vars

(***************************************************************************)
(* Properties.                                                             *)
(***************************************************************************)
Completed == pc \in {"returned", "done"}

LastToken(ts) == ts[Len(ts)]

\* The number of newline characters before position p of the source.
NewlinesBefore(p) == Cardinality({ i \in 1..p : source[i] = "\n" })

\* A step that pushes one token.
Pushes == Len(tokens') = Len(tokens) + 1

\* C1: on every completed scan the EOF token, the last of the stream, has
\* the empty lexeme.
C1_EofLexemeEmpty ==
    Completed => LastToken(tokens).lexeme = <<>>

\* C2: no token but the last of a completed scan is EOF, and the last token
\* of a completed scan is EOF: exactly one EOF, always last, none pushed by
\* a scan step.
C2_OneEofLast ==
    /\ Completed => Len(tokens) >= 1
    /\ \A i \in 1..Len(tokens) :
          tokens[i].token_type = "EOF" <=> (Completed /\ i = Len(tokens))
    /\ pc = "done" => printed = tokens

C2_Witness ==
    /\ pc = "done"
    /\ Len(printed) >= 3
    /\ LastToken(printed).token_type = "EOF"

\* C3: the line of every pushed token is at most the number of newlines
\* before the position its lexeme starts at (for EOF the final cursor).
C3_LineAtTokenStart ==
    [][Pushes =>
         LastToken(tokens').line <=
            NewlinesBefore(IF LastToken(tokens').token_type = "EOF"
                           THEN current' ELSE start')]_vars

\* C4: every STRING token's lexeme begins and ends with a quote and its
\* literal is the lexeme without these two quotes.
C4_StringLiteralStripped ==
    \A i \in 1..Len(tokens) :
       tokens[i].token_type = "STRING" =>
          LET lex == tokens[i].lexeme
          IN  /\ Len(lex) >= 2
              /\ lex[1] = "\""
              /\ lex[Len(lex)] = "\""
              /\ tokens[i].literal = StringLiteral(SubSeq(lex, 2, Len(lex) - 1))

\* The characters as the claims name them.
Digits == { "0", "1", "2", "3", "4", "5", "6", "7", "8", "9" }

Letters == { "o", "r", "f", "O" }

Punctuation == { "(", ")", "{", "}", ",", ".", "+", "-", "*", "/", ";" }

Comparisons == { "!", "=", ">", "<" }

Blanks == { " ", "\r", "\t", "\n" }

AllDigits(lex) == lex # <<>> /\ \A i \in 1..Len(lex) : lex[i] \in Digits

\* The scan is at the head of a scan step with leading character source[current + 1].
AtLead == pc = "scan" /\ current < Len(source)

Aborted == pc = "panic"

\* An abort is final and delivers nothing: no EOF is pushed, nothing printed.
AbortDeliversNothing ==
    /\ [](Aborted =>
            /\ printed = <<>>
            /\ \A i \in 1..Len(tokens) : tokens[i].token_type # "EOF")
    /\ [][Aborted => UNCHANGED vars]_vars

PunctuationKind(c) ==
    CASE c = "(" -> "LEFTPAREN"
      [] c = ")" -> "RIGHTPAREN"
      [] c = "{" -> "LEFTBRACE"
      [] c = "}" -> "RIGHTBRACE"
      [] c = "," -> "COMMA"
      [] c = "." -> "DOT"
      [] c = "+" -> "PLUS"
      [] c = "-" -> "MINUS"
      [] c = "*" -> "STAR"
      [] c = "/" -> "SLASH"
      [] c = ";" -> "SEMICOLON"

\* C6: a scan step at a punctuation character pushes exactly one token,
\* of the kind named for the character, with the character as lexeme.
C6_PunctuationKinds ==
    [][(AtLead /\ source[current + 1] \in Punctuation)
       => LET c == source[current + 1]
          IN  /\ current' = current + 1
              /\ tokens' = Append(tokens,
                    [token_type |-> PunctuationKind(c), lexeme |-> <<c>>,
                     literal |-> NilLiteral, line |-> line])]_vars

\* A closing quote follows the opening quote at position start.
HasClosingQuote == \E i \in (start + 2)..Len(source) : source[i] = "\""

IsAscii == \A i \in 1..Len(source) : source[i] # NonAscii

\* C7: the string scan ends in an abort exactly when no closing quote
\* follows the opening quote (the unterminated-string panic on an ASCII
\* text), and otherwise pushes the STRING token and goes back to the
\* loop; an abort delivers nothing.
C7_UnterminatedStringAborts ==
    /\ [][(pc = "string" /\ pc' # "string")
          => /\ Aborted' <=> ~HasClosingQuote
             /\ (Aborted' /\ IsAscii) => panic' = "Undetermined string"
             /\ ~Aborted' =>
                   /\ pc' = "scan"
                   /\ Pushes
                   /\ LastToken(tokens').token_type = "STRING"]_vars
    /\ AbortDeliversNothing

\* A string whose closing quote is the last character of the source was
\* scanned without an abort.
C7_Witness ==
    /\ pc = "scan"
    /\ Len(tokens) >= 1
    /\ LastToken(tokens).token_type = "STRING"
    /\ current = Len(source)
    /\ source[Len(source)] = "\""

ValidLeads ==
    Punctuation \cup Comparisons \cup Blanks \cup {"\""} \cup Digits \cup Letters \cup {"_"}

\* C8: a scan step at a character that starts no token aborts at once
\* and pushes nothing; an abort is final, no EOF is pushed and nothing is
\* printed, whatever was scanned before.
C8_InvalidCharacterAborts ==
    /\ [][(AtLead /\ source[current + 1] \notin ValidLeads)
          => /\ Aborted'
             /\ panic' = "Invalid token"
             /\ tokens' = tokens
             /\ printed' = printed]_vars
    /\ AbortDeliversNothing

C8_Witness ==
    /\ Aborted
    /\ panic = "Invalid token"
    /\ Len(tokens) >= 1
    /\ printed = <<>>

\* The kinds the scan step names for '!', '=', '>' and '<'.
TwoCharKind(c) ==
    CASE c = "!" -> "BANGEQUAL"
      [] c = "=" -> "EQUALEQUAL"
      [] c = ">" -> "GREATEREQUAL"
      [] c = "<" -> "LESSEQUAL"

OneCharKind(c) ==
    CASE c = "!" -> "EQUAL"
      [] c = "=" -> "EQUAL"
      [] c = ">" -> "GREATER"
      [] c = "<" -> "LESS"

\* C9: a scan step at '!', '=', '>' or '<' consumes the character and a
\* following '=' and pushes one token of the two-character kind, or with
\* no '=' following consumes the character alone and pushes one token of
\* the one-character kind (EQUAL for a lone '!').
C9_OperatorTokens ==
    [][(AtLead /\ source[current + 1] \in Comparisons)
       => LET c == source[current + 1]
              two == current + 1 < Len(source) /\ source[current + 2] = "="
              n == IF two THEN 2 ELSE 1
          IN  /\ current' = current + n
              /\ tokens' = Append(tokens,
                    [token_type |-> IF two THEN TwoCharKind(c) ELSE OneCharKind(c),
                     lexeme |-> SubSeq(source, current + 1, current + n),
                     literal |-> NilLiteral, line |-> line])]_vars

\* The 16 keywords and their kinds.
KeywordKinds ==
    { <<<<"a", "n", "d">>, "AND">>, <<<<"c", "l", "a", "s", "s">>, "CLASS">>,
      <<<<"e", "l", "s", "e">>, "ELSE">>, <<<<"f", "a", "l", "s", "e">>, "FALSE">>,
      <<<<"f", "o", "r">>, "FOR">>, <<<<"f", "u", "n">>, "FUN">>,
      <<<<"i", "f">>, "IF">>, <<<<"n", "i", "l">>, "NIL">>, <<<<"o", "r">>, "OR">>,
      <<<<"p", "r", "i", "n", "t">>, "PRINT">>,
      <<<<"r", "e", "t", "u", "r", "n">>, "RETURN">>,
      <<<<"s", "u", "p", "e", "r">>, "SUPER">>, <<<<"t", "h", "i", "s">>, "THIS">>,
      <<<<"t", "r", "u", "e">>, "TRUE">>, <<<<"v", "a", "r">>, "VAR">>,
      <<<<"w", "h", "i", "l", "e">>, "WHILE">> }

WordChars == Letters \cup Digits \cup {"_"}

\* The end of the maximal run of word characters that begins at position st.
RunEnd(st) ==
    CHOOSE e \in st..Len(source) :
       /\ \A i \in (st + 1)..e : source[i] \in WordChars
       /\ e = Len(source) \/ source[e + 1] \notin WordChars

\* C10: the identifier scan ends by pushing exactly one token, whose
\* lexeme is the maximal run of letters, digits and underscores from the
\* token start and whose kind is the keyword kind if the lexeme is a
\* keyword and IDENTIFIER otherwise.
C10_IdentifierOrKeyword ==
    [][(pc = "identifier" /\ pc' # "identifier")
       => LET lex == SubSeq(source, start + 1, RunEnd(start))
              kind == IF \E kw \in KeywordKinds : kw[1] = lex
                      THEN (CHOOSE kw \in KeywordKinds : kw[1] = lex)[2]
                      ELSE "IDENTIFIER"
          IN  /\ pc' = "scan"
              /\ current' = RunEnd(start)
              /\ tokens' = Append(tokens,
                    [token_type |-> kind, lexeme |-> lex,
                     literal |-> NilLiteral, line |-> line])]_vars

\* A text of supported characters whose string literals are all closed: the
\* quotes pair up, the first of a pair opening and the second closing.
WellFormedAscii ==
    /\ \A i \in 1..Len(source) : source[i] \in ValidLeads
    /\ Cardinality({ i \in 1..Len(source) : source[i] = "\"" }) % 2 = 0

\* A measure of the work left: the characters not yet consumed, then the
\* control state.
Rank ==
    3 * (Len(source) - current) +
       (CASE pc \in {"string", "number", "fraction", "identifier"} -> 3
          [] pc = "scan" -> 2
          [] pc = "returned" -> 1
          [] pc \in {"done", "panic"} -> 0)

\* C11: on a text of supported ASCII characters with closed strings the
\* scan never aborts; every step lowers the non-negative measure Rank, so
\* the scan ends; on an ASCII text every pass of the loop begins by moving
\* the cursor forward, and the passes begun never exceed the characters
\* consumed, which never exceed the characters of the text.
C11_ScanTerminates ==
    /\ [](WellFormedAscii => ~Aborted)
    /\ [](Rank >= 0)
    /\ [][Rank' < Rank]_vars
    /\ [][(IsAscii /\ steps' > steps) => current' > current]_vars
    /\ [](IsAscii => (steps <= current /\ current <= Len(source)))

\* A scan of several passes over a well-formed text has ended.
C11_Witness ==
    /\ WellFormedAscii
    /\ pc = "done"
    /\ steps >= 3
    /\ steps < Len(source)

\* C12: the token start never passes the cursor, and no step of the scan
\* lowers the cursor or the line.
C12_CursorMonotonic ==
    /\ [](start <= current)
    /\ [][current' >= current /\ line' >= line]_vars

\* A scan that moved the cursor and the line, inside a token.
C12_Witness ==
    /\ pc \in {"string", "number", "fraction", "identifier"}
    /\ start >= 1
    /\ current >= start + 2
    /\ line >= 1

\* The end of the maximal run of digits that begins at position st.
DigitRunEnd(st) ==
    CHOOSE e \in st..Len(source) :
       /\ \A i \in (st + 1)..e : source[i] \in Digits
       /\ e = Len(source) \/ source[e + 1] \notin Digits

\* A '.' and then a digit are at position p of the source.
FractionAt(p) ==
    /\ p + 1 < Len(source)
    /\ source[p + 1] = "."
    /\ source[p + 2] \in Digits

DigitOf(c) ==
    CASE c = "0" -> 0 [] c = "1" -> 1 [] c = "2" -> 2 [] c = "3" -> 3
      [] c = "4" -> 4 [] c = "5" -> 5 [] c = "6" -> 6 [] c = "7" -> 7
      [] c = "8" -> 8 [] c = "9" -> 9

RECURSIVE ValueOf(_)
\* The number a digit run denotes in base ten.
ValueOf(lex) ==
    IF lex = <<>> THEN 0
    ELSE 10 * ValueOf(SubSeq(lex, 1, Len(lex) - 1)) + DigitOf(lex[Len(lex)])

\* C13: the scan of a digit run that no fraction follows ends by pushing
\* exactly one NUMBER token whose lexeme is the digit run and whose literal
\* is the value of the run.
C13_IntegerLiteral ==
    [][(pc = "number" /\ pc' # "number" /\ ~FractionAt(DigitRunEnd(start)))
       => LET lex == SubSeq(source, start + 1, DigitRunEnd(start))
          IN  /\ pc' = "scan"
              /\ current' = DigitRunEnd(start)
              /\ tokens' = Append(tokens,
                    [token_type |-> "NUMBER", lexeme |-> lex,
                     literal |-> OkLiteral(ValueOf(lex)), line |-> line])]_vars

InToken == pc \in {"string", "number", "fraction", "identifier"}

\* C15: no character is read at or past the number of characters: the
\* loop calls advance only where a character remains, and peek and
\* peek_next give Nul for a position at or past the end of the text,
\* in string(), number(), identifier() and match_token().
C15_NoReadPastEnd ==
    /\ (pc = "scan" /\ ~is_end(current)) => current < Len(source)
    /\ (InToken /\ current >= Len(source)) => peek(current) = Nul
    /\ (pc = "number" /\ peek(current) = "." /\ current + 1 >= Len(source))
          => peek_next(current) = Nul
    /\ (AtLead /\ source[current + 1] \in Comparisons /\ current + 1 >= Len(source))
          => peek(current + 1) = Nul

\* The end of the number literal that begins at position st: the digit
\* run, and a '.' with the digit run after it where a digit follows the '.'.
NumberLexemeEnd(st) ==
    IF FractionAt(DigitRunEnd(st))
    THEN DigitRunEnd(DigitRunEnd(st) + 1)
    ELSE DigitRunEnd(st)

\* C16: the number scan ends by pushing a NUMBER token whose lexeme is the
\* maximal digit run, extended by '.' and a further maximal digit run only
\* where a digit follows the '.'; the cursor stops there, and a scan step
\* at a '.' pushes a DOT token.
C16_NumberLexeme ==
    /\ [][(pc \in {"number", "fraction"} /\ pc' \notin {"number", "fraction"})
          => /\ pc' = "scan"
             /\ current' = NumberLexemeEnd(start)
             /\ Pushes
             /\ SubSeq(tokens', 1, Len(tokens)) = tokens
             /\ LastToken(tokens').token_type = "NUMBER"
             /\ LastToken(tokens').lexeme =
                   SubSeq(source, start + 1, NumberLexemeEnd(start))]_vars
    /\ [][(AtLead /\ source[current + 1] = ".")
          => /\ Pushes
             /\ LastToken(tokens').token_type = "DOT"
             /\ LastToken(tokens').lexeme = <<".">>]_vars

\* C17: match_token('=') at the position after an operator character is
\* true exactly when a character is there and is '=', and false in every
\* other case; the step consumes the '=' exactly when it is true and
\* changes neither the line nor the tokens pushed before.
C17_MatchTokenFrame ==
    /\ [](AtLead /\ source[current + 1] \in Comparisons
            => match_token("=", current + 1) =
                  (IF current + 1 < Len(source) /\ source[current + 2] = "="
                   THEN "true" ELSE "false"))
    /\ [][(AtLead /\ source[current + 1] \in Comparisons)
          => /\ current' = (current + 1) +
                   (IF match_token("=", current + 1) = "true" THEN 1 ELSE 0)
             /\ start' = current
             /\ line' = line
             /\ SubSeq(tokens', 1, Len(tokens)) = tokens]_vars

\* C18: a scan step at a space, carriage return, tab or newline consumes
\* that one character and pushes nothing; the line grows by one for a
\* newline and stays for the other three.
C18_BlankStep ==
    [][(AtLead /\ source[current + 1] \in Blanks)
       => /\ current' = current + 1
          /\ tokens' = tokens
          /\ line' = IF source[current + 1] = "\n" THEN line + 1 ELSE line
          /\ pc' = "scan"]_vars

\* A carriage return and a newline were scanned: one line, no token.
C18_Witness ==
    /\ pc = "scan"
    /\ source = <<"\r", "\n">>
    /\ current = 2
    /\ line = 1
    /\ tokens = <<>>

\* The first position from pos on that holds no blank (the end if none).
SkipBlanks(pos) ==
    CHOOSE p \in pos..Len(source) :
       /\ \A i \in (pos + 1)..p : source[i] \in Blanks
       /\ p = Len(source) \/ source[p + 1] \notin Blanks

RECURSIVE Tiles(_, _, _)
\* The lexemes of ts from the i-th on lie in the source from position pos
\* on, one after the other, with nothing but blanks between and after them.
Tiles(ts, i, pos) ==
    IF i > Len(ts)
    THEN SkipBlanks(pos) = Len(source)
    ELSE LET p == SkipBlanks(pos)
             lex == ts[i].lexeme
         IN  /\ lex # <<>>
             /\ p + Len(lex) <= Len(source)
             /\ SubSeq(source, p + 1, p + Len(lex)) = lex
             /\ Tiles(ts, i + 1, p + Len(lex))

\* C19: in a completed scan of an ASCII text the lexemes of the tokens
\* before EOF are substrings of the source at increasing positions that do
\* not overlap, and every character outside them is a blank.
C19_LexemesTileSource ==
    (Completed /\ IsAscii) => Tiles(SubSeq(tokens, 1, Len(tokens) - 1), 1, 0)

\* A completed scan of an ASCII text with several tokens and a blank.
C19_Witness ==
    /\ pc = "done"
    /\ IsAscii
    /\ Len(tokens) >= 4
    /\ \E i \in 2..(Len(source) - 1) : source[i] \in Blanks

\* C20: in a completed scan the line of the EOF token is the number of
\* newlines of the source, those in string literals included.
C20_EofLineCountsNewlines ==
    Completed => LastToken(tokens).line = NewlinesBefore(Len(source))

\* A completed scan with a newline in a string literal and one after it.
C20_Witness ==
    /\ pc = "done"
    /\ Len(source) >= 1
    /\ source[Len(source)] = "\n"
    /\ \E i \in 1..Len(tokens) :
          /\ tokens[i].token_type = "STRING"
          /\ \E j \in 1..Len(tokens[i].lexeme) : tokens[i].lexeme[j] = "\n"
    /\ LastToken(tokens).line = 2

====
